---- MODULE Spec2Model ----
(***************************************************************************)
(* min-kb-mcp: the MCP server's article tools (src/src/server.ts), the     *)
(* FileManager (src/src/core/file-manager.ts) and the sql.js               *)
(* DatabaseService (src/src/core/config.ts, lines 135-509).                *)
(*                                                                         *)
(* A JavaScript string is a sequence of UTF-16 code units; a code unit is  *)
(* written as a one-element name: "a", " ", "NL" (line feed), "#", "*",    *)
(* "HS"/"LS" (a high / low surrogate), "FFFD" (the replacement character). *)
(* A file holds the UTF-8 encoding of a string, written here as the        *)
(* sequence of scalar values it encodes ("U1F600" is the scalar value of   *)
(* the pair HS LS).                                                        *)
(***************************************************************************)
EXTENDS Integers, Sequences, FiniteSets, TLC

\* ---------------------------------------------------------------- bounds
\* tool calls a client makes in one run of the server
MaxCalls == 2
\* I/O operations and database statements that fail in one run
MaxFaults == 1
\* calls of DatabaseService.close in one run
MaxCloses == 2
\* articles indexed before listArticles is called, and the pages and page
\* sizes asked for
MaxListed == 15
MaxPage == 3
MaxPageSize == 10
\* code units of the content of an article whose title is derived
MaxContentLen == 5

\* ---------------------------------------------------------------- strings
NL == "NL"
HS == "HS"
LS == "LS"
\* SQL NULL / JavaScript undefined in an optional column or argument
NULL == <<"NULL">>

Letters == {"a", "c", "t", "H", "i", "O", "R"}

\* ASCII case folding of the unicode61 tokenizer and of LIKE
Lower(ch) ==
  CASE ch = "H" -> "h"
    [] ch = "O" -> "o"
    [] ch = "R" -> "r"
    [] OTHER -> ch

LowerStr(s) == [k \in 1..Len(s) |-> Lower(s[k])]

IsSpace(ch) == ch \in {" ", NL}

Drop(s, n) == IF n >= Len(s) THEN <<>> ELSE SubSeq(s, n + 1, Len(s))

Take(s, n) == IF n <= 0 THEN <<>> ELSE SubSeq(s, 1, IF n > Len(s) THEN Len(s) ELSE n)

\* String.prototype.trim
RECURSIVE TrimLeft(_)
TrimLeft(s) == IF s # <<>> /\ IsSpace(Head(s)) THEN TrimLeft(Tail(s)) ELSE s

RECURSIVE TrimRight(_)
TrimRight(s) ==
  IF s # <<>> /\ IsSpace(s[Len(s)]) THEN TrimRight(Take(s, Len(s) - 1)) ELSE s

Trim(s) == TrimRight(TrimLeft(s))

\* Array.prototype.join(',')
RECURSIVE Join(_)
Join(list) ==
  IF list = <<>> THEN <<>>
  ELSE IF Len(list) = 1 THEN Head(list)
  ELSE Head(list) \o <<",">> \o Join(Tail(list))

\* ---------------------------------------------------------------- UTF-8
\* writeFile(path, content, 'utf-8'): a surrogate pair becomes one scalar
\* value, an unpaired surrogate is written as U+FFFD
RECURSIVE Utf8Encode(_)
Utf8Encode(s) ==
  IF s = <<>> THEN <<>>
  ELSE IF Head(s) = HS /\ Len(s) >= 2 /\ s[2] = LS
       THEN <<"U1F600">> \o Utf8Encode(Drop(s, 2))
  ELSE IF Head(s) \in {HS, LS} THEN <<"FFFD">> \o Utf8Encode(Tail(s))
  ELSE <<Head(s)>> \o Utf8Encode(Tail(s))

\* readFile(path, 'utf-8')
RECURSIVE Utf8Decode(_)
Utf8Decode(b) ==
  IF b = <<>> THEN <<>>
  ELSE IF Head(b) = "U1F600" THEN <<HS, LS>> \o Utf8Decode(Tail(b))
  ELSE <<Head(b)>> \o Utf8Decode(Tail(b))

\* ---------------------------------------------------------------- text
Min(S) == CHOOSE x \in S : \A y \in S : x <= y

Max(S) == CHOOSE x \in S : \A y \in S : x >= y

\* ^ under the m flag: the start of the string or just after a line feed
AtLineStart(s, p) == p = 1 \/ s[p - 1] = NL

\* the number of whitespace code units of s starting at position p
RECURSIVE WsRun(_, _)
WsRun(s, p) == IF p <= Len(s) /\ IsSpace(s[p]) THEN 1 + WsRun(s, p + 1) ELSE 0

\* the number of "#" of s starting at position p
RECURSIVE HashRun(_, _)
HashRun(s, p) == IF p <= Len(s) /\ s[p] = "#" THEN 1 + HashRun(s, p + 1) ELSE 0

\* (.+)$ from position q: the rest of q's line ("." matches no line feed)
RECURSIVE LineFrom(_, _)
LineFrom(s, q) ==
  IF q > Len(s) \/ s[q] = NL THEN <<>> ELSE <<s[q]>> \o LineFrom(s, q + 1)

\* the capture of /^#\s+(.+)$/m matched at position p, or NULL: \s+ is greedy
\* and gives back whitespace until (.+) finds a code unit that is no line feed
TitleMatchAt(s, p) ==
  LET n == WsRun(s, p + 1)
      ks == {k \in 1..n : p + 1 + k <= Len(s) /\ s[p + 1 + k] # NL}
  IN IF s[p] = "#" /\ AtLineStart(s, p) /\ ks # {}
     THEN LineFrom(s, p + 1 + Max(ks))
     ELSE NULL

\* DatabaseService.extractTitle: the first match, trimmed; undefined if none
extractTitle(content) ==
  LET ps == {p \in 1..Len(content) : TitleMatchAt(content, p) # NULL}
  IN IF ps = {} THEN NULL ELSE Trim(TitleMatchAt(content, Min(ps)))

\* removeMarkdown, on this alphabet: an ATX heading marker (1..6 "#" at the
\* start of a line, with the whitespace that follows it) is removed
RECURSIVE StripFrom(_, _)
StripFrom(s, p) ==
  IF p > Len(s) THEN <<>>
  ELSE LET h == HashRun(s, p)
           w == WsRun(s, p + h)
       IN IF AtLineStart(s, p) /\ h >= 1 /\ h <= 6 /\ w >= 1
          THEN StripFrom(s, p + h + w)
          ELSE <<s[p]>> \o StripFrom(s, p + 1)

removeMarkdown(md) == StripFrom(md, 1)

\* the unicode61 tokenizer of FTS5: maximal runs of letters, case folded
RECURSIVE TokensFrom(_, _, _)
TokensFrom(s, p, cur) ==
  IF p > Len(s) THEN (IF cur = <<>> THEN {} ELSE {cur})
  ELSE IF s[p] \in Letters THEN TokensFrom(s, p + 1, cur \o <<Lower(s[p])>>)
  ELSE (IF cur = <<>> THEN {} ELSE {cur}) \cup TokensFrom(s, p + 1, <<>>)

Tokens(s) == TokensFrom(s, 1, <<>>)

\* the spelling of the tokens of s, before case folding
RECURSIVE WordsFrom(_, _, _)
WordsFrom(s, p, cur) ==
  IF p > Len(s) THEN (IF cur = <<>> THEN {} ELSE {cur})
  ELSE IF s[p] \in Letters THEN WordsFrom(s, p + 1, cur \o <<s[p]>>)
  ELSE (IF cur = <<>> THEN {} ELSE {cur}) \cup WordsFrom(s, p + 1, <<>>)

Words(s) == WordsFrom(s, 1, <<>>)

\* the operator keywords of the FTS5 query syntax (case sensitive)
FtsKeywords == {<<"O", "R">>}

\* does the FTS5 query parser accept q: spaces separate the terms of an
\* implicit AND, a term is a bareword that is no keyword
FtsQueryOk(q) ==
  /\ q # <<>>
  /\ \A k \in 1..Len(q) : q[k] \in Letters \cup {" "}
  /\ Words(q) # {}
  /\ Words(q) \cap FtsKeywords = {}

\* articles_fts MATCH q on a row whose content column holds text
FtsMatch(text, q) == Tokens(q) \subseteq Tokens(text)

\* content LIKE '%q%': a substring match, case insensitive on ASCII
Like(text, q) ==
  \E k \in 0..(Len(text) - Len(q)) :
     LowerStr(SubSeq(text, k + 1, k + Len(q))) = LowerStr(q)

\* ---------------------------------------------------------------- inputs
\* the identifiers uuidv4() returns, in the order it returns them; the
\* first one is the id of the article of an existing knowledge base
GenIds == 1..(MaxCalls + 1)

\* an identifier a client makes up; uuidv4() never returns it
BogusId == MaxCalls + 2

AllIds == {BogusId} \cup GenIds

\* `${articlesPath}/${id}.md`
PathOf(id) == <<"articles", id>>

\* the { content, title, keywords } arguments of createArticle / updateArticle
ArticleInputs ==
  << [content |-> <<"#", " ", "H", "i", NL, "c", "a", "t", " ", "O", "R", HS, LS>>,
      title |-> NULL, keywords |-> NULL],
     [content |-> <<"c", "a", "t", HS>>,
      title |-> <<"T">>, keywords |-> << <<"k">>, <<"j">> >>] >>

\* the { query, limit } arguments of searchArticles
SearchInputs ==
  << [query |-> <<"c", "a", "t">>, limit |-> 10],
     [query |-> <<"O", "R">>, limit |-> 1] >>

\* the { page, size } arguments of listArticles
ListInputs ==
  << [page |-> 1, size |-> 10],
     [page |-> 2, size |-> 1] >>

\* the contents of at most MaxContentLen code units a heading can be made of
Contents == UNION {[1..n -> {"#", " ", NL, "a"}] : n \in 0..MaxContentLen}

\* the contents of ArticleInputs
InputContents == {ArticleInputs[k].content : k \in DOMAIN ArticleInputs}

\* removeMarkdown(article.content) and this.extractTitle(article.content) of
\* the contents of ArticleInputs, each evaluated once
Stripped == [md \in InputContents |-> removeMarkdown(md)]

Headings == [content \in InputContents |-> extractTitle(content)]

\* const cleanContent = removeMarkdown(article.content)
CleanContent(article) ==
  IF article.content \in InputContents THEN Stripped[article.content]
  ELSE removeMarkdown(article.content)

\* keywords?.join(',')
JoinKeywords(keywords) == IF keywords = NULL THEN NULL ELSE Join(keywords)

\* the Article object the createArticle / updateArticle handlers hand to
\* indexArticle
ArticleOf(id, k) ==
  [id |-> id,
   filePath |-> PathOf(id),
   content |-> ArticleInputs[k].content,
   title |-> ArticleInputs[k].title,
   keywords |-> JoinKeywords(ArticleInputs[k].keywords)]

\* ---------------------------------------------------------------- state
VARIABLES
  build,            \* the sql.js build: "fts5" (compiled with FTS5) or "none"
  files,            \* the articles directory: path -> the bytes of the file
  nextId,           \* the next identifier uuidv4() returns
  initState,        \* DatabaseService.ready: "pending", "ready" or "failed"
  schemaRuns,       \* how many times initSchema has run
  ftsAvailable,     \* DatabaseService.ftsAvailable
  articles,         \* table articles: id -> [filePath, title, keywords]
  articles_content, \* table articles_content: id -> content
  articles_fts,     \* table articles_fts: id -> content
  disk,             \* the database file at dbPath, as last written by persist
  pending,          \* tool calls waiting at their await of the DatabaseService
  resp,             \* the tool response the last step returned, if any
  unlinked,         \* history: ids whose file a deleteArticle call removed
  deleted,          \* history: ids a deleteArticle call reported deleted
  created,          \* history: id -> content of a successful createArticle,
                    \*   until an update or delete touches the id's file
  lastIdx,          \* history: id -> outcome of the last indexArticle /
                    \*   deindexArticle call on that id
  early,            \* history: a statement ran before initialization ended
  race,             \* history: id -> the call ("update" or "delete") that
                    \*   returned success while the other one was in flight
  calls,            \* history: tool calls made so far
  faults,           \* history: failures of I/O and of statements so far
  dbHandle,         \* DatabaseService.db: "none" (not yet constructed),
                    \*   "open" or "closed"
  closeCalls,       \* history: calls of DatabaseService.close so far
  lastClose,        \* history: how the last close() ended: "none" (no call
                    \*   yet), "noop" (this.db unset), "closed" (it closed the
                    \*   open database), "reclosed" (the database was closed
                    \*   already, it returned) or "raised" (it threw)
  probes,           \* history: the CREATE VIRTUAL TABLE statements initSchema
                    \*   has run, in order, each with its tokenizer and whether
                    \*   it succeeded
  stmts,            \* history: the statements the methods of the
                    \*   DatabaseService have run, in order, each with the
                    \*   number of its call (kept by SpecSteps)
  txn,              \* the transaction state of the database connection:
                    \*   "open" between a BEGIN and its COMMIT or ROLLBACK,
                    \*   else "none" (autocommit)
  ftsRows           \* table articles_fts row by row, in order of insertion
                    \*   (the table has no key): [id, content] (kept by
                    \*   SpecRows and SpecBetter)

vars ==
  <<build, files, nextId, initState, schemaRuns, ftsAvailable, articles,
    articles_content, articles_fts, disk, pending, resp, unlinked, deleted,
    created, lastIdx, early, race, calls, faults, dbHandle, closeCalls,
    lastClose, probes, stmts, txn, ftsRows>>

fileVars == <<files, nextId>>

dbVars ==
  <<build, initState, schemaRuns, ftsAvailable, articles, articles_content,
    articles_fts, disk>>

histVars == <<unlinked, deleted, created, lastIdx, early, race>>

lifeVars == <<dbHandle, closeCalls, lastClose, probes, stmts, txn, ftsRows>>

Empty == [x \in {} |-> NULL]

\* f with key k bound to v
Upsert(f, k, v) == [x \in DOMAIN f \cup {k} |-> IF x = k THEN v ELSE f[x]]

\* f without key k
Remove(f, k) == [x \in DOMAIN f \ {k} |-> f[x]]

\* db.export(): the image of the in-memory database
Export ==
  [articles |-> articles, content |-> articles_content, fts |-> articles_fts]

NoResp == [op |-> "none", id |-> BogusId, arg |-> 0, err |-> "", out |-> <<>>,
           both |-> FALSE]

\* a tool response: err is "" for a success, else the name of the error
\* whose message the isError result carries; both (history) is set on the
\* second success of an updateArticle and a deleteArticle of one id that
\* were in flight together
Resp(op, id, arg, err, out) ==
  [op |-> op, id |-> id, arg |-> arg, err |-> err, out |-> out, both |-> FALSE]

\* ---------------------------------------------------------------- DatabaseService
\* how the statements of one indexArticle call end: every statement succeeds
\* ("ok") or the named one throws
IndexCore == {"ok", "meta", "content", "persist"}

IndexFts == {"ok", "del", "ins"}

DeindexCore == {"ok", "begin", "meta", "content", "commit", "persist"}

DeindexFts == {"ok", "del"}

\* a variant of ReadyResolved for a method without await this.ready
ReadyNotAwaited == TRUE

\* await this.ready: the call goes on once the initialization has resolved
ReadyResolved == initState = "ready"

\* a variant of ReadyRejected in which a rejection of this.ready never
\* reaches the calls that await it
ReadyRejectionLost == FALSE

\* await this.ready on a rejected promise throws the initialization error
ReadyRejected == initState = "failed"

\* a variant of InitErrorThrown for await this.ready.catch(() => {}): the
\* rejection is swallowed and the method goes on to its statements
InitErrorSwallowed == FALSE

\* await this.ready is the first statement of indexArticle, deindexArticle,
\* search and listArticles, before their try block: when the promise has
\* rejected it throws the initialization error out of the method
InitErrorThrown == ReadyRejected

\* a variant of FtsAfterCall that gives up the full-text table after a
\* failed full-text statement
FtsAfterCallDisabled(failed) == ftsAvailable /\ ~failed

\* this.ftsAvailable after a call of indexArticle, deindexArticle or search
\* (failed: did one of its full-text statements throw): no method but
\* initSchema assigns it
FtsAfterCall(failed) == ftsAvailable

\* const title = article.title || this.extractTitle(article.content)
TitleOf(article) ==
  IF article.title = NULL \/ article.title = <<>>
  THEN (IF article.content \in InputContents THEN Headings[article.content]
        ELSE extractTitle(article.content))
  ELSE article.title

\* the row the first statement of indexArticle upserts into articles
MetaRow(article) ==
  [filePath |-> article.filePath,
   title |-> TitleOf(article),
   keywords |-> article.keywords]

\* a variant of IndexMeta whose upsert keeps the old title or keywords when
\* the call gives none
IndexMetaKeepOmitted(article, core) ==
  IF core = "meta" THEN articles
  ELSE LET new == MetaRow(article)
           old == IF article.id \in DOMAIN articles THEN articles[article.id]
                  ELSE new
       IN Upsert(articles, article.id,
                 [filePath |-> new.filePath,
                  title |-> IF new.title = NULL THEN old.title ELSE new.title,
                  keywords |-> IF new.keywords = NULL THEN old.keywords
                               ELSE new.keywords])

\* INSERT INTO articles ... ON CONFLICT(id) DO UPDATE
IndexMeta(article, core) ==
  IF core = "meta" THEN articles
  ELSE Upsert(articles, article.id, MetaRow(article))

\* a variant of IndexContent that leaves the content row to be written later
IndexContentDeferred(article, core) == articles_content

\* INSERT INTO articles_content ... ON CONFLICT(id) DO UPDATE
IndexContent(article, core) ==
  IF core \in {"meta", "content"} THEN articles_content
  ELSE Upsert(articles_content, article.id, CleanContent(article))

\* a variant of IndexFtsRows without the INSERT INTO articles_fts
IndexFtsRowsDeleteOnly(article, core, ftsf) ==
  IF core \in {"meta", "content"} \/ ~ftsAvailable \/ ftsf = "del"
  THEN articles_fts
  ELSE Remove(articles_fts, article.id)

\* if (this.ftsAvailable) try { DELETE FROM articles_fts; INSERT INTO
\* articles_fts } catch { }
IndexFtsRows(article, core, ftsf) ==
  IF core \in {"meta", "content"} \/ ~ftsAvailable \/ ftsf = "del"
  THEN articles_fts
  ELSE IF ftsf = "ins" THEN Remove(articles_fts, article.id)
  ELSE Upsert(articles_fts, article.id, CleanContent(article))

\* a variant of indexArticle that returns without calling persist
indexArticleUnpersisted(article, core, ftsf) ==
  LET img == [articles |-> IndexMeta(article, core),
              content |-> IndexContent(article, core),
              fts |-> IndexFtsRows(article, core, ftsf)]
  IN [image |-> img,
      disk |-> disk,
      err |-> IF core = "ok" THEN "" ELSE "DatabaseError"]

\* a variant of indexArticle whose full-text statements are not inside a
\* try / catch of their own
indexArticleFtsFatal(article, core, ftsf) ==
  LET img == [articles |-> IndexMeta(article, core),
              content |-> IndexContent(article, core),
              fts |-> IndexFtsRows(article, core, ftsf)]
      ok == core = "ok" /\ ftsf = "ok"
  IN [image |-> img,
      disk |-> IF ok THEN [exists |-> TRUE, image |-> img] ELSE disk,
      err |-> IF ok THEN "" ELSE "DatabaseError"]

\* DatabaseService.indexArticle after its await: the tables, the database
\* file and whether the call threw
indexArticle(article, core, ftsf) ==
  LET img == [articles |-> IndexMeta(article, core),
              content |-> IndexContent(article, core),
              fts |-> IndexFtsRows(article, core, ftsf)]
  IN [image |-> img,
      disk |-> IF core = "ok" THEN [exists |-> TRUE, image |-> img] ELSE disk,
      err |-> IF core = "ok" THEN "" ELSE "DatabaseError"]

\* did the statements BEGIN .. COMMIT of deindexArticle all succeed
DeindexCommitted(core) == core \in {"ok", "persist"}

\* a variant of DeindexFtsRows whose DELETE has no WHERE id = ?
DeindexFtsRowsAll(id, ftsf) ==
  IF ~ftsAvailable \/ ftsf = "del" THEN articles_fts
  ELSE Empty

\* DELETE FROM articles_fts inside the transaction, its error ignored
DeindexFtsRows(id, ftsf) ==
  IF ~ftsAvailable \/ ftsf = "del" THEN articles_fts
  ELSE Remove(articles_fts, id)

\* the transaction state after the statements of run, from state t: a BEGIN
\* opens a transaction, a COMMIT or a ROLLBACK ends it, a statement that
\* threw changes nothing
RECURSIVE TxnAfter(_, _)
TxnAfter(t, run) ==
  IF run = <<>> THEN t
  ELSE LET s == Head(run)
       IN TxnAfter(IF s.ok /\ s.stmt = "BEGIN" THEN "open"
                   ELSE IF s.ok /\ s.stmt \in {"COMMIT", "ROLLBACK"} THEN "none"
                   ELSE t,
                   Tail(run))

\* the statements of the try block of deindexArticle up to the one that
\* throws, each with whether it succeeded (fts: this.ftsAvailable); the
\* DELETE on articles_fts is in a try / catch of its own
DeindexTried(fts, core, ftsf) ==
  LET all == <<[stmt |-> "BEGIN", ok |-> core # "begin"],
               [stmt |-> "DELETE articles", ok |-> core # "meta"],
               [stmt |-> "DELETE articles_content", ok |-> core # "content"]>>
               \o (IF fts
                   THEN <<[stmt |-> "DELETE articles_fts", ok |-> ftsf # "del"]>>
                   ELSE <<>>)
               \o <<[stmt |-> "COMMIT", ok |-> core # "commit"],
                    [stmt |-> "persist", ok |-> core # "persist"]>>
      thrown == {k \in DOMAIN all : ~all[k].ok /\ all[k].stmt # "DELETE articles_fts"}
  IN IF thrown = {} THEN all ELSE Take(all, Min(thrown))

\* a variant of DeindexRun whose catch block has no ROLLBACK
DeindexRunNoRollback(t, fts, core, ftsf) == DeindexTried(fts, core, ftsf)

\* the statements a deindexArticle call runs on a connection in transaction
\* state t: those of its try block and, when one threw, the ROLLBACK of the
\* catch block, which succeeds when a transaction is open
DeindexRun(t, fts, core, ftsf) ==
  LET tried == DeindexTried(fts, core, ftsf)
  IN IF core = "ok" THEN tried
     ELSE Append(tried, [stmt |-> "ROLLBACK", ok |-> TxnAfter(t, tried) = "open"])

\* the transaction state a deindexArticle call leaves, for every state it
\* can start in and every way its statements can end
DeindexTxn ==
  [t \in {"none", "open"}, fts \in BOOLEAN, core \in DeindexCore,
   ftsf \in DeindexFts |-> TxnAfter(t, DeindexRun(t, fts, core, ftsf))]

\* a variant of deindexArticle without BEGIN, COMMIT and ROLLBACK: each
\* DELETE takes effect as it runs
deindexArticleNoRollback(id, core, ftsf) ==
  [image |-> [articles |-> IF core \in {"begin", "meta"} THEN articles
                           ELSE Remove(articles, id),
              content |-> IF core \in {"begin", "meta", "content"}
                          THEN articles_content
                          ELSE Remove(articles_content, id),
              fts |-> IF core \in {"begin", "meta", "content"} THEN articles_fts
                      ELSE DeindexFtsRows(id, ftsf)],
   disk |-> IF core = "ok"
            THEN [exists |-> TRUE,
                  image |-> [articles |-> Remove(articles, id),
                             content |-> Remove(articles_content, id),
                             fts |-> DeindexFtsRows(id, ftsf)]]
            ELSE disk,
   err |-> IF core = "ok" THEN ""
           ELSE IF core \in {"begin", "persist"} THEN "Error"
           ELSE "DatabaseError"]

\* DatabaseService.deindexArticle after its await: a failure before COMMIT
\* is rolled back; a failure of persist comes after COMMIT, the ROLLBACK of
\* the catch block then throws too ("begin" likewise: no transaction is open)
deindexArticle(id, core, ftsf) ==
  LET img == IF DeindexCommitted(core)
             THEN [articles |-> Remove(articles, id),
                   content |-> Remove(articles_content, id),
                   fts |-> DeindexFtsRows(id, ftsf)]
             ELSE Export
  IN [image |-> img,
      disk |-> IF core = "ok" THEN [exists |-> TRUE, image |-> img] ELSE disk,
      err |-> IF core = "ok" THEN ""
              ELSE IF core \in {"begin", "persist"} THEN "Error"
              ELSE "DatabaseError"]

\* the ids of S as a list in ascending order of key, then of id
RECURSIVE SortBy(_, _)
SortBy(S, key) ==
  IF S = {} THEN <<>>
  ELSE LET m == CHOOSE x \in S :
                  \A y \in S : key[x] < key[y] \/ (key[x] = key[y] /\ x <= y)
       IN <<m>> \o SortBy(S \ {m}, key)

\* LIMIT n: a negative n is no limit
Limit(list, n) == IF n < 0 THEN list ELSE Take(list, n)

\* bm25(articles_fts): the better the match, the lower (more negative):
\* the more tokens of the query the text holds, and the shorter the text
Bm25(text, q) ==
  Cardinality(Tokens(text))
    - (Len(text) + 1) * Cardinality(Tokens(q) \cap Tokens(text))

\* a variant of FtsJoin without the JOIN on articles
FtsWithoutJoin(q) == {id \in DOMAIN articles_fts : FtsMatch(articles_fts[id], q)}

\* FROM articles_fts JOIN articles a ON articles_fts.id = a.id
\* WHERE articles_fts MATCH ?
FtsJoin(q) ==
  {id \in DOMAIN articles_fts \cap DOMAIN articles :
     FtsMatch(articles_fts[id], q)}

\* FROM articles_content c JOIN articles a ON c.id = a.id
\* WHERE c.content LIKE ?
LikeJoin(q) ==
  {id \in DOMAIN articles_content \cap DOMAIN articles :
     Like(articles_content[id], q)}

\* a variant of ZeroRank that numbers the rows
RankById == [id \in AllIds \cup DOMAIN articles |-> id]

\* 0 AS rank / rank: 0
ZeroRank == [id \in AllIds \cup DOMAIN articles |-> 0]

ResultRows(ids, rank) == [k \in 1..Len(ids) |-> [id |-> ids[k], rank |-> rank[ids[k]]]]

\* a variant of search whose ranked statement applies LIMIT before ORDER BY
searchLimitFirst(q, limit, outcome) ==
  IF outcome = "fail" \/ (ftsAvailable /\ ~FtsQueryOk(q))
  THEN [err |-> "DatabaseError", rows |-> <<>>]
  ELSE IF ftsAvailable /\ outcome = "ok"
  THEN LET rank == [id \in AllIds |->
                      IF id \in DOMAIN articles_fts
                      THEN Bm25(articles_fts[id], q) ELSE 0]
           cut == Limit(SortBy(FtsJoin(q), ZeroRank), limit)
           first == {cut[k] : k \in DOMAIN cut}
       IN [err |-> "", rows |-> ResultRows(SortBy(first, rank), rank)]
  ELSE IF ftsAvailable
  THEN [err |-> "",
        rows |-> ResultRows(Limit(SortBy(FtsJoin(q), ZeroRank), limit), ZeroRank)]
  ELSE [err |-> "",
        rows |-> ResultRows(Limit(SortBy(LikeJoin(q), ZeroRank), limit), ZeroRank)]

\* DatabaseService.search after its await.  outcome: "ok"; "rank" (the
\* bm25 statement throws, the statement without bm25 runs); "fail" (every
\* statement throws).  A query the FTS5 parser rejects makes both full-text
\* statements throw.
search(q, limit, outcome) ==
  IF outcome = "fail" \/ (ftsAvailable /\ ~FtsQueryOk(q))
  THEN [err |-> "DatabaseError", rows |-> <<>>]
  ELSE IF ftsAvailable /\ outcome = "ok"
  THEN LET rank == [id \in AllIds |->
                      IF id \in DOMAIN articles_fts
                      THEN Bm25(articles_fts[id], q) ELSE 0]
       IN [err |-> "",
           rows |-> ResultRows(Limit(SortBy(FtsJoin(q), rank), limit), rank)]
  ELSE IF ftsAvailable
  THEN [err |-> "",
        rows |-> ResultRows(Limit(SortBy(FtsJoin(q), ZeroRank), limit), ZeroRank)]
  ELSE [err |-> "",
        rows |-> ResultRows(Limit(SortBy(LikeJoin(q), ZeroRank), limit), ZeroRank)]

\* a variant of listArticles with OFFSET page * size
listArticlesZeroBased(page, size, outcome) ==
  IF outcome = "fail" THEN [err |-> "DatabaseError", rows |-> <<>>]
  ELSE [err |-> "",
        rows |-> Limit(Drop(SortBy(DOMAIN articles, ZeroRank), page * size), size)]

\* a variant of listArticles with OFFSET page - 1
listArticlesOffsetPage(page, size, outcome) ==
  IF outcome = "fail" THEN [err |-> "DatabaseError", rows |-> <<>>]
  ELSE [err |-> "",
        rows |-> Limit(Drop(SortBy(DOMAIN articles, ZeroRank), page - 1), size)]

\* DatabaseService.listArticles after its await:
\* SELECT ... FROM articles LIMIT size OFFSET (page - 1) * size
listArticles(page, size, outcome) ==
  IF outcome = "fail" THEN [err |-> "DatabaseError", rows |-> <<>>]
  ELSE [err |-> "",
        rows |-> Limit(Drop(SortBy(DOMAIN articles, ZeroRank), (page - 1) * size),
                       size)]

\* ---------------------------------------------------------------- initial state
EmptyImage == [articles |-> Empty, content |-> Empty, fts |-> Empty]

Builds == {"fts5", "none"}

\* the id of the one article of an existing knowledge base
ExistingId == Min(GenIds)

\* the database file an earlier run of the server, on the same build, left
\* behind after createArticle of the first input
ExistingImage(b) ==
  LET article == ArticleOf(ExistingId, 1)
      text == Stripped[article.content]
  IN [articles |-> [x \in {ExistingId} |-> MetaRow(article)],
      content |-> [x \in {ExistingId} |-> text],
      fts |-> IF b = "none" THEN Empty ELSE [x \in {ExistingId} |-> text]]

\* the server starts on a new knowledge base or on an existing one
Init ==
  /\ build \in Builds
  /\ \E kb \in {"new", "existing"} :
       /\ files = IF kb = "new" THEN Empty
                  ELSE [x \in {PathOf(ExistingId)} |->
                          Utf8Encode(ArticleInputs[1].content)]
       /\ nextId = IF kb = "new" THEN ExistingId ELSE ExistingId + 1
       /\ disk = IF kb = "new" THEN [exists |-> FALSE, image |-> EmptyImage]
                 ELSE [exists |-> TRUE, image |-> ExistingImage(build)]
  /\ initState = "pending"
  /\ schemaRuns = 0
  /\ ftsAvailable = FALSE
  /\ articles = Empty
  /\ articles_content = Empty
  /\ articles_fts = Empty
  /\ pending = {}
  /\ resp = NoResp
  /\ unlinked = {}
  /\ deleted = {}
  /\ created = Empty
  /\ lastIdx = [id \in AllIds |-> "none"]
  /\ early = FALSE
  /\ race = [id \in AllIds |-> "none"]
  /\ calls = 0
  /\ faults = 0
  /\ dbHandle = "none"
  /\ closeCalls = 0
  /\ lastClose = "none"
  /\ probes = <<>>
  /\ stmts = <<>>
  /\ txn = "none"
  /\ ftsRows = <<>>

\* ---------------------------------------------------------------- failures
\* a step in which an I/O operation or a statement fails
Fault == faults < MaxFaults /\ faults' = faults + 1

NoFault == faults' = faults

\* a client makes one more tool call
NewCall == calls < MaxCalls /\ calls' = calls + 1

\* ---------------------------------------------------------------- initialization
\* how DatabaseService.initialize ends: it resolves ("ok"), or initSqlJs /
\* the Database constructor throws ("load"), a CREATE TABLE of initSchema
\* throws ("schema"), or the first persist throws ("persist")
InitOutcomes == {"ok", "load", "schema", "persist"}

\* initSchema: the CREATE VIRTUAL TABLE ... USING fts5 statements it runs:
\* the one with tokenize='porter', and the one without it in the catch block
\* of the first
Probes(porter) ==
  IF porter THEN <<[tokenize |-> "porter", ok |-> TRUE]>>
  ELSE <<[tokenize |-> "porter", ok |-> FALSE],
         [tokenize |-> "plain", ok |-> build = "fts5"]>>

\* a variant of ProbeFts that gives up after the first statement
ProbeFtsPorterOnly(porter) == porter

\* initSchema: this.ftsAvailable after the probe with tokenize='porter'
\* (porter: does it succeed) and, if that one threw, the probe without it
ProbeFts(porter) == porter \/ build = "fts5"

\* new this.SQL.Database(fileBuffer) for an existing database file, new
\* this.SQL.Database() otherwise
LoadImage == IF disk.exists THEN disk.image ELSE EmptyImage

InitComplete(o, porter) ==
  /\ initState = "pending"
  /\ porter => build = "fts5"
  /\ IF o = "ok" /\ (porter \/ build = "none") THEN NoFault ELSE Fault
  /\ schemaRuns' = IF o = "load" THEN schemaRuns ELSE schemaRuns + 1
  /\ ftsAvailable' = IF o \in {"load", "schema"} THEN ftsAvailable
                   ELSE ProbeFts(porter)
  /\ initState' = IF o = "ok" THEN "ready" ELSE "failed"
  /\ articles' = IF o = "load" THEN articles ELSE LoadImage.articles
  /\ articles_content' = IF o = "load" THEN articles_content ELSE LoadImage.content
  /\ articles_fts' = IF o = "load" THEN articles_fts ELSE LoadImage.fts
  /\ disk' = IF o = "ok" THEN [exists |-> TRUE, image |-> LoadImage] ELSE disk
  /\ dbHandle' = IF o = "load" THEN dbHandle ELSE "open"
  /\ probes' = IF o \in {"load", "schema"} THEN probes ELSE Probes(porter)
  /\ resp' = NoResp
  /\ UNCHANGED <<build, fileVars, pending, unlinked, deleted, created,
                 lastIdx, early, race, calls, closeCalls, lastClose, stmts,
                 txn, ftsRows>>

\* ---------------------------------------------------------------- FileManager
WriteOutcomes == {"ok", "fail", "trunc"}

\* a variant of WriteFile that writes outside the articles directory
WriteFileElsewhere(path, content, w) == files

\* writeFile(filePath, content, 'utf-8'): the file is created or replaced
\* ("ok"); the write throws before the file is opened ("fail") or after it
\* was opened and truncated ("trunc")
WriteFile(path, content, w) ==
  CASE w = "ok" -> Upsert(files, path, Utf8Encode(content))
    [] w = "trunc" -> Upsert(files, path, <<>>)
    [] OTHER -> files

\* a variant of readArticle that hands back the bytes undecoded
readArticleBytes(path) == files[path]

\* readFile(filePath, 'utf-8') of an existing file
readArticle(path) == Utf8Decode(files[path])

Call(op, id, arg) == [op |-> op, id |-> id, arg |-> arg]

\* the ids a client can name: a string of its own, and the ids uuidv4() has
\* returned, but for those of createArticle calls that have not returned
KnownIds ==
  {BogusId} \cup
  {id \in GenIds : id < nextId /\ \A c \in pending : ~(c.op = "create" /\ c.id = id)}

\* the other call of an updateArticle / deleteArticle pair
Opposite(op) == IF op = "update" THEN "delete" ELSE "update"

\* is a call op on id in flight
InFlight(op, id) == \E c \in pending : c.op = op /\ c.id = id

\* race and resp.both when the pending call c returns with error err ("" for
\* success)
RaceAfter(c, err) ==
  IF c.op \in {"update", "delete"} /\ err = "" /\ InFlight(Opposite(c.op), c.id)
  THEN [race EXCEPT ![c.id] = c.op]
  ELSE IF c.op \in {"update", "delete"} /\ race[c.id] = Opposite(c.op)
  THEN [race EXCEPT ![c.id] = "none"]
  ELSE race

BothAfter(c, err) ==
  c.op \in {"update", "delete"} /\ err = "" /\ race[c.id] = Opposite(c.op)

\* ---------------------------------------------------------------- tool handlers
\* createArticle, up to its await of db.indexArticle
CreateFile(k, w) ==
  /\ NewCall
  /\ IF w = "ok" THEN NoFault ELSE Fault
  /\ nextId' = nextId + 1
  /\ files' = WriteFile(PathOf(nextId), ArticleInputs[k].content, w)
  /\ IF w = "ok"
     THEN /\ pending' = pending \cup {Call("create", nextId, k)}
          /\ resp' = NoResp
     ELSE /\ pending' = pending
          /\ resp' = Resp("create", nextId, k, "FileOperationError", <<>>)
  /\ UNCHANGED <<dbVars, unlinked, deleted, created, lastIdx, early, race>>
  /\ UNCHANGED lifeVars

\* the statements of indexArticle for the pending call c, and the response
\* of its handler
RunIndexArticle(c, core, ftsf) ==
  /\ c \in pending
  /\ ReadyResolved \/ ReadyRejected
  /\ pending' = pending \ {c}
  /\ IF InitErrorThrown
     THEN /\ core = "ok" /\ ftsf = "ok"
          /\ NoFault
          /\ resp' = Resp(c.op, c.id, c.arg, "DatabaseError", <<>>)
          /\ race' = RaceAfter(c, "DatabaseError")
          /\ lastIdx' = [lastIdx EXCEPT ![c.id] = "index_fail"]
          /\ UNCHANGED <<dbVars, early>>
     ELSE \E r \in {indexArticle(ArticleOf(c.id, c.arg), core, ftsf)} :
             /\ ftsf # "ok" => (ftsAvailable /\ core = "ok")
             /\ IF core = "ok" /\ ftsf = "ok" THEN NoFault ELSE Fault
             /\ articles' = r.image.articles
             /\ articles_content' = r.image.content
             /\ articles_fts' = r.image.fts
             /\ disk' = r.disk
             /\ resp' = [Resp(c.op, c.id, c.arg, r.err, <<>>)
                           EXCEPT !.both = BothAfter(c, r.err)]
             /\ race' = RaceAfter(c, r.err)
             /\ lastIdx' = [lastIdx EXCEPT ![c.id] =
                              IF r.err # "" /\ ftsf # "ok" THEN "index_fail_ftsfail"
                              ELSE IF r.err # "" THEN "index_fail"
                              ELSE IF ftsf # "ok" THEN "index_ok_ftsfail"
                              ELSE "index_ok"]
             /\ early' = (early \/ initState # "ready")
             /\ ftsAvailable' = FtsAfterCall(ftsf # "ok")
             /\ UNCHANGED <<build, initState, schemaRuns>>

\* createArticle, from its await of db.indexArticle to its return
CreateIndex(c, core, ftsf) ==
  /\ c.op = "create"
  /\ RunIndexArticle(c, core, ftsf)
  /\ created' = IF resp'.err = ""
                THEN Upsert(created, c.id, ArticleInputs[c.arg].content)
                ELSE created
  /\ UNCHANGED <<fileVars, unlinked, deleted, calls>>
  /\ UNCHANGED lifeVars

\* updateArticle, up to its await of db.indexArticle
UpdateFile(id, k, w) ==
  /\ id \in KnownIds
  /\ NewCall
  /\ IF w = "ok" THEN NoFault ELSE Fault
  /\ files' = WriteFile(PathOf(id), ArticleInputs[k].content, w)
  /\ created' = IF w = "fail" THEN created ELSE Remove(created, id)
  /\ ~InFlight("update", id)
  /\ IF w = "ok"
     THEN /\ pending' = pending \cup {Call("update", id, k)}
          /\ resp' = NoResp
     ELSE /\ pending' = pending
          /\ resp' = Resp("update", id, k, "FileOperationError", <<>>)
  /\ UNCHANGED <<nextId, dbVars, unlinked, deleted, lastIdx, early, race>>
  /\ UNCHANGED lifeVars

\* updateArticle, from its await of db.indexArticle to its return
UpdateIndex(c, core, ftsf) ==
  /\ c.op = "update"
  /\ RunIndexArticle(c, core, ftsf)
  /\ UNCHANGED <<fileVars, unlinked, deleted, created, calls>>
  /\ UNCHANGED lifeVars

\* a variant of DeleteFile that goes on to db.deindexArticle when unlink
\* has thrown
DeleteFileThenDeindex(id, w) ==
  /\ id \in KnownIds
  /\ w \in {"ok", "fail"}
  /\ NewCall
  /\ ~InFlight("delete", id)
  /\ pending' = pending \cup {Call("delete", id, 0)}
  /\ IF PathOf(id) \notin DOMAIN files
     THEN /\ w = "ok"
          /\ NoFault
          /\ resp' = Resp("delete", id, 0, "FileOperationError:ENOENT", <<>>)
          /\ UNCHANGED <<files, unlinked, created>>
     ELSE IF w = "fail"
     THEN /\ Fault
          /\ resp' = Resp("delete", id, 0, "FileOperationError", <<>>)
          /\ UNCHANGED <<files, unlinked, created>>
     ELSE /\ NoFault
          /\ files' = Remove(files, PathOf(id))
          /\ unlinked' = unlinked \cup {id}
          /\ created' = Remove(created, id)
          /\ resp' = NoResp
  /\ UNCHANGED <<nextId, dbVars, deleted, lastIdx, early, race>>
  /\ UNCHANGED lifeVars

\* deleteArticle, up to its await of db.deindexArticle: unlink(filePath)
\* throws ENOENT when the file is absent, and may fail on an existing file
DeleteFile(id, w) ==
  /\ id \in KnownIds
  /\ w \in {"ok", "fail"}
  /\ NewCall
  /\ ~InFlight("delete", id)
  /\ IF PathOf(id) \notin DOMAIN files
     THEN /\ w = "ok"
          /\ NoFault
          /\ resp' = Resp("delete", id, 0, "FileOperationError:ENOENT", <<>>)
          /\ UNCHANGED <<files, pending, unlinked, created>>
     ELSE IF w = "fail"
     THEN /\ Fault
          /\ resp' = Resp("delete", id, 0, "FileOperationError", <<>>)
          /\ UNCHANGED <<files, pending, unlinked, created>>
     ELSE /\ NoFault
          /\ files' = Remove(files, PathOf(id))
          /\ pending' = pending \cup {Call("delete", id, 0)}
          /\ unlinked' = unlinked \cup {id}
          /\ created' = Remove(created, id)
          /\ resp' = NoResp
  /\ UNCHANGED <<nextId, dbVars, deleted, lastIdx, early, race>>
  /\ UNCHANGED lifeVars

\* deleteArticle, from its await of db.deindexArticle to its return
DeleteDeindex(c, core, ftsf) ==
  /\ c \in pending
  /\ c.op = "delete"
  /\ ReadyResolved \/ ReadyRejected
  /\ pending' = pending \ {c}
  /\ IF InitErrorThrown
     THEN /\ core = "ok" /\ ftsf = "ok"
          /\ NoFault
          /\ resp' = Resp("delete", c.id, 0, "DatabaseError", <<>>)
          /\ race' = RaceAfter(c, "DatabaseError")
          /\ lastIdx' = [lastIdx EXCEPT ![c.id] = "deindex_fail"]
          /\ UNCHANGED <<dbVars, early, deleted, txn>>
     ELSE \E r \in {deindexArticle(c.id, core, ftsf)} :
             /\ ftsf # "ok" => (ftsAvailable /\ core = "ok")
             /\ IF core = "ok" /\ ftsf = "ok" THEN NoFault ELSE Fault
             /\ articles' = r.image.articles
             /\ articles_content' = r.image.content
             /\ articles_fts' = r.image.fts
             /\ disk' = r.disk
             /\ resp' = [Resp("delete", c.id, 0, r.err, <<>>)
                           EXCEPT !.both = BothAfter(c, r.err)]
             /\ race' = RaceAfter(c, r.err)
             /\ lastIdx' = [lastIdx EXCEPT ![c.id] =
                              IF r.err # "" /\ ftsf # "ok" THEN "deindex_fail_ftsfail"
                              ELSE IF r.err # "" /\ core \in {"meta", "content"}
                              THEN "deindex_fail_row"
                              ELSE IF r.err # "" THEN "deindex_fail"
                              ELSE IF ftsf # "ok" THEN "deindex_ok_ftsfail"
                              ELSE "deindex_ok"]
             /\ deleted' = IF r.err = "" THEN deleted \cup {c.id} ELSE deleted
             /\ early' = (early \/ initState # "ready")
             /\ ftsAvailable' = FtsAfterCall(ftsf # "ok")
             /\ txn' = DeindexTxn[txn, ftsAvailable, core, ftsf]
             /\ UNCHANGED <<build, initState, schemaRuns>>
  /\ UNCHANGED <<fileVars, unlinked, created, calls>>
  /\ UNCHANGED <<dbHandle, closeCalls, lastClose, probes, stmts, ftsRows>>

\* getArticle: readFile(filePath) throws ENOENT when the file is absent,
\* and may fail on an existing file
GetArticle(id, w) ==
  /\ id \in KnownIds
  /\ w \in {"ok", "fail"}
  /\ NewCall
  /\ IF PathOf(id) \notin DOMAIN files
     THEN /\ w = "ok"
          /\ NoFault
          /\ resp' = Resp("get", id, 0, "FileOperationError:ENOENT", <<>>)
     ELSE IF w = "fail"
     THEN /\ Fault
          /\ resp' = Resp("get", id, 0, "FileOperationError", <<>>)
     ELSE /\ NoFault
          /\ resp' = Resp("get", id, 0, "", readArticle(PathOf(id)))
  /\ UNCHANGED <<fileVars, dbVars, pending, unlinked, deleted, created,
                 lastIdx, early, race>>
  /\ UNCHANGED lifeVars

SearchOutcomes == {"ok", "rank", "fail"}

\* this.db.prepare on a closed database throws
DbClosed == dbHandle = "closed"

\* searchArticles: db.search waits for this.ready, runs its statements and
\* the handler returns
SearchArticles(k, outcome) ==
  /\ ReadyResolved \/ ReadyRejected
  /\ NewCall
  /\ IF InitErrorThrown \/ DbClosed
     THEN /\ outcome = "ok"
          /\ NoFault
          /\ resp' = Resp("search", BogusId, k, "DatabaseError", <<>>)
          /\ early' = early
     ELSE \E r \in {search(SearchInputs[k].query, SearchInputs[k].limit, outcome)} :
             /\ outcome = "rank" => ftsAvailable
             /\ IF outcome = "ok" THEN NoFault ELSE Fault
             /\ resp' = Resp("search", BogusId, k, r.err, r.rows)
             /\ early' = (early \/ initState # "ready")
  /\ ftsAvailable' = FtsAfterCall(outcome # "ok" \/ ~FtsQueryOk(SearchInputs[k].query))
  /\ UNCHANGED <<build, initState, schemaRuns, articles, articles_content,
                 articles_fts, disk>>
  /\ UNCHANGED <<fileVars, pending, unlinked, deleted, created, lastIdx, race>>
  /\ UNCHANGED lifeVars

\* listArticles: db.listArticles waits for this.ready, runs its statement
\* and the handler returns
ListArticles(k, outcome) ==
  /\ outcome \in {"ok", "fail"}
  /\ ReadyResolved \/ ReadyRejected
  /\ NewCall
  /\ IF InitErrorThrown \/ DbClosed
     THEN /\ outcome = "ok"
          /\ NoFault
          /\ resp' = Resp("list", BogusId, k, "DatabaseError", <<>>)
          /\ early' = early
     ELSE \E r \in {listArticles(ListInputs[k].page, ListInputs[k].size, outcome)} :
             /\ IF outcome = "ok" THEN NoFault ELSE Fault
             /\ resp' = Resp("list", BogusId, k, r.err, r.rows)
             /\ early' = (early \/ initState # "ready")
  /\ UNCHANGED <<fileVars, dbVars, pending, unlinked, deleted, created, lastIdx,
                 race>>
  /\ UNCHANGED lifeVars

\* a variant of PersistErrorEscapes for a close() without the try / catch
\* around persist
PersistErrorPropagates(failed) == failed

\* close(): try { this.persist(this.dbPath) } catch { }: does an error of
\* persist leave close()
PersistErrorEscapes(failed) == FALSE

\* DatabaseService.close (McpServer.stop calls it).  p: how writeFileSync of
\* persist ends on an open database; on a closed one db.export() throws,
\* and db.close() returns without doing anything
Close(p) ==
  /\ closeCalls < MaxCloses
  /\ closeCalls' = closeCalls + 1
  /\ p \in {"ok", "fail"}
  /\ p = "fail" => dbHandle = "open"
  /\ IF p = "fail" THEN Fault ELSE NoFault
  /\ IF dbHandle = "none"
     THEN /\ lastClose' = "noop"
          /\ UNCHANGED <<dbHandle, disk>>
     ELSE LET failed == dbHandle = "closed" \/ p = "fail"
          IN /\ disk' = IF failed THEN disk ELSE [exists |-> TRUE, image |-> Export]
             /\ lastClose' = IF PersistErrorEscapes(failed) THEN "raised"
                             ELSE IF dbHandle = "closed" THEN "reclosed"
                             ELSE "closed"
             /\ dbHandle' = IF PersistErrorEscapes(failed) THEN dbHandle
                            ELSE "closed"
  /\ resp' = NoResp
  /\ UNCHANGED <<build, initState, schemaRuns, ftsAvailable, articles,
                 articles_content, articles_fts>>
  /\ UNCHANGED <<fileVars, pending, histVars, calls, probes, stmts, txn,
                 ftsRows>>

Next ==
  \/ \E o \in InitOutcomes, porter \in BOOLEAN : InitComplete(o, porter)
  \/ \E k \in DOMAIN ArticleInputs, w \in WriteOutcomes : CreateFile(k, w)
  \/ \E c \in pending, core \in IndexCore, ftsf \in IndexFts :
       CreateIndex(c, core, ftsf)
  \/ \E id \in AllIds, k \in DOMAIN ArticleInputs, w \in WriteOutcomes :
       UpdateFile(id, k, w)
  \/ \E c \in pending, core \in IndexCore, ftsf \in IndexFts :
       UpdateIndex(c, core, ftsf)
  \/ \E id \in AllIds, w \in WriteOutcomes : DeleteFile(id, w)
  \/ \E c \in pending, core \in DeindexCore, ftsf \in DeindexFts :
       DeleteDeindex(c, core, ftsf)
  \/ \E id \in AllIds, w \in WriteOutcomes : GetArticle(id, w)
  \/ \E k \in DOMAIN SearchInputs, outcome \in SearchOutcomes :
       SearchArticles(k, outcome)
  \/ \E k \in DOMAIN ListInputs, outcome \in SearchOutcomes :
       ListArticles(k, outcome)

Spec == Init /\ [][Next]_vars

\* ---------------------------------------------------------------- the life of a DatabaseService
\* a DatabaseService that is constructed, initializes, is read and is
\* closed, as the afterEach of the test file and McpServer.stop do
NextClose ==
  \/ \E o \in InitOutcomes, porter \in BOOLEAN : InitComplete(o, porter)
  \/ \E p \in {"ok", "fail"} : Close(p)
  \/ \E k \in DOMAIN SearchInputs, outcome \in SearchOutcomes :
       SearchArticles(k, outcome)
  \/ \E k \in DOMAIN ListInputs, outcome \in SearchOutcomes :
       ListArticles(k, outcome)

SpecClose == Init /\ [][NextClose]_vars

\* ---------------------------------------------------------------- searching
\* a server whose clients create articles and search
SpecSearch ==
  Init /\ [][\/ \E o \in InitOutcomes, porter \in BOOLEAN : InitComplete(o, porter)
             \/ \E k \in DOMAIN ArticleInputs, w \in WriteOutcomes : CreateFile(k, w)
             \/ \E c \in pending, core \in IndexCore, ftsf \in IndexFts :
                  CreateIndex(c, core, ftsf)
             \/ \E k \in DOMAIN SearchInputs, outcome \in SearchOutcomes :
                  SearchArticles(k, outcome)]_vars

\* ---------------------------------------------------------------- listing
\* the id of the n-th article of the pagination test
ListedId(n) == n

\* the state of an initialized DatabaseService on a new database with
\* `listed` articles indexed
ListInit ==
  /\ build = "none"
  /\ files = Empty
  /\ nextId = ExistingId
  /\ disk = [exists |-> TRUE, image |-> EmptyImage]
  /\ initState = "ready"
  /\ schemaRuns = 1
  /\ ftsAvailable = FALSE
  /\ articles = Empty
  /\ articles_content = Empty
  /\ articles_fts = Empty
  /\ pending = {}
  /\ resp = NoResp
  /\ unlinked = {}
  /\ deleted = {}
  /\ created = Empty
  /\ lastIdx = [id \in AllIds |-> "none"]
  /\ early = FALSE
  /\ race = [id \in AllIds |-> "none"]
  /\ calls = 0
  /\ faults = 0
  /\ dbHandle = "open"
  /\ closeCalls = 0
  /\ lastClose = "none"
  /\ probes = Probes(FALSE)
  /\ stmts = <<>>
  /\ txn = "none"
  /\ ftsRows = <<>>

\* await db.indexArticle({ id: `id-${i}`, ... }) of the test's loop, the
\* articles taking the inputs in turn
ListIndexNext ==
  /\ Cardinality(DOMAIN articles) < MaxListed
  /\ \E r \in {indexArticle(ArticleOf(ListedId(Cardinality(DOMAIN articles) + 1),
                                      (Cardinality(DOMAIN articles) % Len(ArticleInputs)) + 1),
                            "ok", "ok")} :
        /\ r.err = ""
        /\ articles' = r.image.articles
        /\ articles_content' = r.image.content
        /\ articles_fts' = r.image.fts
        /\ disk' = r.disk
  /\ resp' = NoResp
  /\ UNCHANGED <<build, initState, schemaRuns, ftsAvailable>>
  /\ UNCHANGED <<fileVars, pending, histVars, calls, faults, lifeVars>>

\* await db.listArticles(page, size); the response keeps the arguments
ListPage(page, size) ==
  /\ \E r \in {listArticles(page, size, "ok")} :
        resp' = [Resp("list", BogusId, 0, r.err, r.rows)
                   EXCEPT !.arg = [page |-> page, size |-> size]]
  /\ UNCHANGED <<fileVars, dbVars, pending, histVars, calls, faults, lifeVars>>

ListNext ==
  \/ ListIndexNext
  \/ \E page \in 1..MaxPage, size \in 1..MaxPageSize : ListPage(page, size)

SpecList == ListInit /\ [][ListNext]_vars

\* ---------------------------------------------------------------- progress
\* the calls a handler can leave waiting at an await of the DatabaseService
WaitingCalls ==
  {Call(op, id, k) : op \in {"create", "update"}, id \in AllIds,
                     k \in DOMAIN ArticleInputs}
    \cup {Call("delete", id, 0) : id \in AllIds}

\* the server when the initialization and every call of the DatabaseService
\* that has been started complete or fail
SpecLive ==
  /\ Spec
  /\ WF_vars(\E o \in InitOutcomes, porter \in BOOLEAN : InitComplete(o, porter))
  /\ WF_vars(\E c \in pending, core \in IndexCore, ftsf \in IndexFts :
               CreateIndex(c, core, ftsf))
  /\ WF_vars(\E c \in pending, core \in IndexCore, ftsf \in IndexFts :
               UpdateIndex(c, core, ftsf))
  /\ WF_vars(\E c \in pending, core \in DeindexCore, ftsf \in DeindexFts :
               DeleteDeindex(c, core, ftsf))

\* ---------------------------------------------------------------- statements
\* the statements of indexArticle ("index") and of deindexArticle after
\* their await this.ready, in program order
Statements(op) ==
  IF op = "index"
  THEN <<"INSERT articles", "INSERT articles_content">>
         \o (IF ftsAvailable THEN <<"DELETE articles_fts", "INSERT articles_fts">>
             ELSE <<>>)
         \o <<"persist">>
  ELSE <<"BEGIN", "DELETE articles", "DELETE articles_content">>
         \o (IF ftsAvailable THEN <<"DELETE articles_fts">> ELSE <<>>)
         \o <<"COMMIT", "persist">>

\* a variant of Segments for a persist that is awaited (an asynchronous
\* writeFile)
SegmentsAwaitPersist(op) ==
  <<Take(Statements(op), Len(Statements(op)) - 1), <<"persist">>>>

\* the runs of statements of a method between one await and the next: the
\* only await of both methods is await this.ready, and persist is
\* writeFileSync, so the statements are one run
Segments(op) == <<Statements(op)>>

\* a handler calls indexArticle or deindexArticle, which stops at await
\* this.ready
Invoke(op, id) ==
  /\ NewCall
  /\ pending' = pending \cup {Call(op, id, [call |-> calls + 1, seg |-> 0])}
  /\ stmts' = Append(stmts, [call |-> calls + 1, stmt |-> "await"])
  /\ UNCHANGED <<fileVars, dbVars, resp, histVars, faults, dbHandle, closeCalls,
                 lastClose, probes, txn, ftsRows>>

\* the event loop resumes the call c, which runs up to its next await or to
\* its return; it throws at once if this.ready has rejected
RunSegment(c) ==
  /\ c \in pending
  /\ ReadyResolved \/ ReadyRejected
  /\ LET k == c.arg.seg + 1
         seg == IF InitErrorThrown THEN <<>> ELSE Segments(c.op)[k]
     IN /\ stmts' = stmts \o [i \in 1..Len(seg) |->
                                [call |-> c.arg.call, stmt |-> seg[i]]]
        /\ pending' = (pending \ {c}) \cup
                        (IF InitErrorThrown \/ k = Len(Segments(c.op)) THEN {}
                         ELSE {Call(c.op, c.id, [call |-> c.arg.call, seg |-> k])})
  /\ UNCHANGED <<fileVars, dbVars, resp, histVars, calls, faults, dbHandle,
                 closeCalls, lastClose, probes, txn, ftsRows>>

SpecSteps ==
  Init /\ [][\/ \E o \in InitOutcomes, porter \in BOOLEAN : InitComplete(o, porter)
             \/ \E op \in {"index", "deindex"}, id \in AllIds : Invoke(op, id)
             \/ \E c \in pending : RunSegment(c)]_vars

\* ---------------------------------------------------------------- titles
\* await db.indexArticle({ id, filePath, content, title }) on an empty index;
\* the response keeps the arguments
IndexTitled(content, title) ==
  /\ articles = Empty
  /\ \E r \in {indexArticle([id |-> ExistingId, filePath |-> PathOf(ExistingId),
                             content |-> content, title |-> title,
                             keywords |-> NULL], "ok", "ok")} :
        /\ articles' = r.image.articles
        /\ articles_content' = r.image.content
        /\ articles_fts' = r.image.fts
        /\ disk' = r.disk
        /\ resp' = [Resp("index", ExistingId, 0, r.err, <<>>)
                      EXCEPT !.arg = [content |-> content, title |-> title]]
  /\ UNCHANGED <<build, initState, schemaRuns, ftsAvailable>>
  /\ UNCHANGED <<fileVars, pending, histVars, calls, faults, lifeVars>>

SpecTitle ==
  ListInit /\ [][\E content \in Contents, title \in {NULL, <<>>, <<"T">>} :
                    IndexTitled(content, title)]_vars

\* ---------------------------------------------------------------- the rows of articles_fts
\* the rows of a table without those of id: DELETE ... WHERE id = ?
RECURSIVE DeleteRows(_, _)
DeleteRows(rows, id) ==
  IF rows = <<>> THEN <<>>
  ELSE (IF Head(rows).id = id THEN <<>> ELSE <<Head(rows)>>)
         \o DeleteRows(Tail(rows), id)

\* a variant of IndexFtsRowList without the DELETE FROM articles_fts
IndexFtsRowListInsertOnly(article, core, ftsf) ==
  IF core \in {"meta", "content"} \/ ~ftsAvailable \/ ftsf = "del"
  THEN ftsRows
  ELSE IF ftsf = "ins" THEN ftsRows
  ELSE Append(ftsRows, [id |-> article.id, content |-> CleanContent(article)])

\* indexArticle, row by row: DELETE FROM articles_fts WHERE id = ?, then
\* INSERT INTO articles_fts (id, content), both in one try / catch
IndexFtsRowList(article, core, ftsf) ==
  IF core \in {"meta", "content"} \/ ~ftsAvailable \/ ftsf = "del"
  THEN ftsRows
  ELSE IF ftsf = "ins" THEN DeleteRows(ftsRows, article.id)
  ELSE Append(DeleteRows(ftsRows, article.id),
              [id |-> article.id, content |-> CleanContent(article)])

\* deindexArticle, row by row: DELETE FROM articles_fts WHERE id = ? inside
\* the transaction
DeindexFtsRowList(id, core, ftsf) ==
  IF ~DeindexCommitted(core) \/ ~ftsAvailable \/ ftsf = "del" THEN ftsRows
  ELSE DeleteRows(ftsRows, id)

\* the ids of the rows of FROM articles_fts JOIN articles a ON
\* articles_fts.id = a.id WHERE articles_fts MATCH ?, one for every
\* full-text row that matches and has a metadata row
RECURSIVE JoinRows(_, _)
JoinRows(rows, q) ==
  IF rows = <<>> THEN <<>>
  ELSE (IF Head(rows).id \in DOMAIN articles /\ FtsMatch(Head(rows).content, q)
        THEN <<Head(rows).id>> ELSE <<>>)
         \o JoinRows(Tail(rows), q)

\* an initialized DatabaseService on a new database, on a build with FTS5
RowsInit ==
  /\ build = "fts5"
  /\ files = Empty
  /\ nextId = ExistingId
  /\ disk = [exists |-> TRUE, image |-> EmptyImage]
  /\ initState = "ready"
  /\ schemaRuns = 1
  /\ ftsAvailable = TRUE
  /\ articles = Empty
  /\ articles_content = Empty
  /\ articles_fts = Empty
  /\ pending = {}
  /\ resp = NoResp
  /\ unlinked = {}
  /\ deleted = {}
  /\ created = Empty
  /\ lastIdx = [id \in AllIds |-> "none"]
  /\ early = FALSE
  /\ race = [id \in AllIds |-> "none"]
  /\ calls = 0
  /\ faults = 0
  /\ dbHandle = "open"
  /\ closeCalls = 0
  /\ lastClose = "none"
  /\ probes = Probes(TRUE)
  /\ stmts = <<>>
  /\ txn = "none"
  /\ ftsRows = <<>>

\* await db.indexArticle(article), as the test file calls it
IndexRows(id, k, core, ftsf) ==
  /\ NewCall
  /\ ftsf # "ok" => core = "ok"
  /\ IF core = "ok" /\ ftsf = "ok" THEN NoFault ELSE Fault
  /\ \E r \in {indexArticle(ArticleOf(id, k), core, ftsf)} :
        /\ articles' = r.image.articles
        /\ articles_content' = r.image.content
        /\ articles_fts' = r.image.fts
        /\ disk' = r.disk
        /\ resp' = Resp("index", id, k, r.err, <<>>)
        /\ lastIdx' = [lastIdx EXCEPT ![id] =
                         IF r.err # "" THEN "index_fail"
                         ELSE IF ftsf # "ok" THEN "index_ok_ftsfail"
                         ELSE "index_ok"]
  /\ ftsRows' = IndexFtsRowList(ArticleOf(id, k), core, ftsf)
  /\ UNCHANGED <<build, initState, schemaRuns, ftsAvailable>>
  /\ UNCHANGED <<fileVars, pending, unlinked, deleted, created, early, race>>
  /\ UNCHANGED <<dbHandle, closeCalls, lastClose, probes, stmts, txn>>

\* await db.deindexArticle(id)
DeindexRows(id, core, ftsf) ==
  /\ NewCall
  /\ ftsf # "ok" => core = "ok"
  /\ IF core = "ok" /\ ftsf = "ok" THEN NoFault ELSE Fault
  /\ \E r \in {deindexArticle(id, core, ftsf)} :
        /\ articles' = r.image.articles
        /\ articles_content' = r.image.content
        /\ articles_fts' = r.image.fts
        /\ disk' = r.disk
        /\ resp' = Resp("deindex", id, 0, r.err, <<>>)
        /\ lastIdx' = [lastIdx EXCEPT ![id] =
                         IF r.err # "" THEN "deindex_fail"
                         ELSE IF ftsf # "ok" THEN "deindex_ok_ftsfail"
                         ELSE "deindex_ok"]
        /\ deleted' = IF r.err = "" THEN deleted \cup {id} ELSE deleted
  /\ ftsRows' = DeindexFtsRowList(id, core, ftsf)
  /\ txn' = DeindexTxn[txn, ftsAvailable, core, ftsf]
  /\ UNCHANGED <<build, initState, schemaRuns, ftsAvailable>>
  /\ UNCHANGED <<fileVars, pending, unlinked, created, early, race>>
  /\ UNCHANGED <<dbHandle, closeCalls, lastClose, probes, stmts>>

\* a DatabaseService whose methods are called one after the other
SpecRows ==
  RowsInit /\ [][\/ \E id \in AllIds, k \in DOMAIN ArticleInputs,
                      core \in IndexCore, ftsf \in IndexFts :
                        IndexRows(id, k, core, ftsf)
                 \/ \E id \in AllIds, core \in DeindexCore, ftsf \in DeindexFts :
                        DeindexRows(id, core, ftsf)]_vars

\* ---------------------------------------------------------------- the better-sqlite3 DatabaseService
\* an Article with all its fields given, as the test file passes it: the
\* content of input k under a title and keywords
BetterArticle(id, k) ==
  [id |-> id,
   filePath |-> PathOf(id),
   content |-> ArticleInputs[k].content,
   title |-> <<"T">>,
   keywords |-> <<"k">>]

\* indexArticle of db/database.ts: one transaction holding INSERT OR REPLACE
\* INTO articles (a row in conflict on the primary key id is replaced) and
\* INSERT OR REPLACE INTO articles_fts (id, content) (the fts5 table has no
\* key but its rowid, which the statement does not give: the row is added);
\* o = "fail": a statement throws and the transaction is rolled back
BetterIndex(id, k, o) ==
  /\ NewCall
  /\ IF o = "ok" THEN NoFault ELSE Fault
  /\ articles' = IF o = "ok" THEN Upsert(articles, id, MetaRow(BetterArticle(id, k)))
                 ELSE articles
  /\ ftsRows' = IF o = "ok"
                THEN Append(ftsRows, [id |-> id,
                                      content |-> CleanContent(BetterArticle(id, k))])
                ELSE ftsRows
  /\ resp' = Resp("index", id, k, IF o = "ok" THEN "" ELSE "DatabaseError", <<>>)
  /\ lastIdx' = [lastIdx EXCEPT ![id] = IF o = "ok" THEN "index_ok" ELSE "index_fail"]
  /\ UNCHANGED <<fileVars, build, initState, schemaRuns, ftsAvailable,
                 articles_content, articles_fts, disk, pending, unlinked, deleted,
                 created, early, race>>
  /\ UNCHANGED <<dbHandle, closeCalls, lastClose, probes, stmts, txn>>

\* deindexArticle of db/database.ts: one transaction holding DELETE FROM
\* articles WHERE id = ? and DELETE FROM articles_fts WHERE id = ?
BetterDeindex(id, o) ==
  /\ NewCall
  /\ IF o = "ok" THEN NoFault ELSE Fault
  /\ articles' = IF o = "ok" THEN Remove(articles, id) ELSE articles
  /\ ftsRows' = IF o = "ok" THEN DeleteRows(ftsRows, id) ELSE ftsRows
  /\ resp' = Resp("deindex", id, 0, IF o = "ok" THEN "" ELSE "DatabaseError", <<>>)
  /\ lastIdx' = [lastIdx EXCEPT ![id] =
                   IF o = "ok" THEN "deindex_ok" ELSE "deindex_fail"]
  /\ deleted' = IF o = "ok" THEN deleted \cup {id} ELSE deleted
  /\ UNCHANGED <<fileVars, build, initState, schemaRuns, ftsAvailable,
                 articles_content, articles_fts, disk, pending, unlinked,
                 created, early, race>>
  /\ UNCHANGED <<dbHandle, closeCalls, lastClose, probes, stmts, txn>>

\* a better-sqlite3 DatabaseService, constructed on a new database, whose
\* methods are called one after the other
SpecBetter ==
  RowsInit /\ [][\/ \E id \in AllIds, k \in DOMAIN ArticleInputs, o \in {"ok", "fail"} :
                        BetterIndex(id, k, o)
                 \/ \E id \in AllIds, o \in {"ok", "fail"} :
                        BetterDeindex(id, o)]_vars

\* ---------------------------------------------------------------- properties
FileExists(id) == PathOf(id) \in DOMAIN files

\* the ids of the rows of a search result
ResultIds(rows) == {rows[k].id : k \in DOMAIN rows}

\* the ids of a listArticles page
PageIds(rows) == {rows[k] : k \in DOMAIN rows}

\* a limit and a page size that hold every row
AllRows == Cardinality(AllIds)

\* the one-token queries for the tokens of text, as spelled and case folded
TokenQueries(text) == Words(text) \cup Tokens(text)

\* the queries of SearchInputs and a query for every token of ArticleInputs
Queries ==
  {SearchInputs[k].query : k \in DOMAIN SearchInputs} \cup
  UNION {TokenQueries(removeMarkdown(ArticleInputs[k].content)) :
           k \in DOMAIN ArticleInputs}

\* no unpaired surrogate: the strings writeFile stores without replacement
RECURSIVE WellFormed(_)
WellFormed(s) ==
  IF s = <<>> THEN TRUE
  ELSE IF Head(s) = HS /\ Len(s) >= 2 /\ s[2] = LS THEN WellFormed(Drop(s, 2))
  ELSE Head(s) \notin {HS, LS} /\ WellFormed(Tail(s))

\* C1: when createArticle has written the file and its indexArticle step
\* fails, the file no longer exists once the error response is returned.
\* (The handler's catch block returns the error and removes nothing.)
C1_CreateFailureRemovesFile ==
  (resp.op = "create" /\ resp.err \in {"DatabaseError", "Error"})
    => ~FileExists(resp.id)

C3_TablesHoldSameIds ==
  (resp.op \in {"create", "update", "delete"} /\ resp.err = "")
    => /\ DOMAIN articles_content = DOMAIN articles
       /\ ftsAvailable => DOMAIN articles_fts = DOMAIN articles

C5_DeindexedNotReturned ==
  \A id \in AllIds :
     lastIdx[id] \in {"deindex_ok", "deindex_ok_ftsfail"}
       => /\ \A q \in Queries, o \in {"ok", "rank"} :
               id \notin ResultIds(search(q, AllRows, o).rows)
          /\ \A page \in 1..AllRows, size \in 1..AllRows :
               id \notin PageIds(listArticles(page, size, "ok").rows)

\* C5 witness: a searchArticles call has returned while the full-text row of
\* a de-indexed id, left behind by the failed DELETE, matches its query
C5_Witness ==
  /\ resp.op = "search" /\ resp.err = ""
  /\ \E id \in DOMAIN articles_fts :
       /\ lastIdx[id] = "deindex_ok_ftsfail"
       /\ FtsMatch(articles_fts[id], SearchInputs[resp.arg].query)

\* C6, as stated: after a successful createArticle(content), and until an
\* update or delete of the id, reading the id returns content.
C6_RoundTrip ==
  \A id \in DOMAIN created :
     FileExists(id) /\ readArticle(PathOf(id)) = created[id]

\* C6, amended: the same, for a content that is well-formed UTF-16 (it holds
\* no unpaired surrogate).
C6_RoundTripWellFormed ==
  \A id \in DOMAIN created :
     WellFormed(created[id])
       => FileExists(id) /\ readArticle(PathOf(id)) = created[id]

\* C6 witness: getArticle has returned the well-formed content of a
\* successful createArticle
C6_Witness ==
  /\ resp.op = "get" /\ resp.err = ""
  /\ resp.id \in DOMAIN created
  /\ WellFormed(created[resp.id])
  /\ resp.out = created[resp.id]

C8_RaceKeepsStoresAgreeing ==
  resp.both => (FileExists(resp.id) <=> resp.id \in DOMAIN articles)

\* C9: no statement of indexArticle, deindexArticle, search or listArticles
\* runs before the initialization has completed; the calls made before that
\* wait for the one initialization, and initSchema runs once, never twice.
C9_InitializedOnce ==
  /\ ~early
  /\ schemaRuns <= 1
  /\ initState = "pending"
       => /\ schemaRuns = 0
          /\ resp.op \notin {"search", "list"}
          /\ \A id \in AllIds : lastIdx[id] = "none"
  /\ initState = "ready" => schemaRuns = 1

\* C9 witness: two calls made before the initialization has completed wait
\* for it, and no statement has run
C9_Witness ==
  /\ initState = "pending"
  /\ Cardinality(pending) >= 2
  /\ articles = Empty

\* C10: once deleteArticle(id) has succeeded, the id never appears again as
\* a file or as an index row.
C10_DeletedStaysGone ==
  \A id \in deleted :
     /\ ~FileExists(id)
     /\ id \notin DOMAIN articles
     /\ id \notin DOMAIN articles_content

\* the kind of tool result a handler returns for the response r: its catch
\* block returns { content: [text], isError: true } for every error caught,
\* the error's class being dropped and its message put into the text
ErrorKind(r) == IF r.err = "" THEN "result" ELSE "isError"

\* does the article id match the query q, as a conjunction of tokens or as
\* a substring of its stripped content
Matches(id, q) ==
  /\ id \in DOMAIN articles \cap DOMAIN articles_content
  /\ \/ (Tokens(q) # {} /\ FtsMatch(articles_content[id], q))
     \/ Like(articles_content[id], q)

\* ceil(n / s)
Ceil(n, s) == (n + s - 1) \div s

\* C11: when updateArticle has written the file and its indexArticle step
\* fails, the error the caller receives is of another kind than the one it
\* receives when the file write fails.
C11_PartialUpdateIsDistinctKind ==
  (resp.op = "update" /\ resp.err \in {"DatabaseError", "Error"})
    => ErrorKind(resp)
         # ErrorKind(Resp("update", resp.id, resp.arg, "FileOperationError", <<>>))

\* C12: a step in which the unlink of deleteArticle fails (the file is
\* absent, or an I/O error) reports the error and leaves the tables and the
\* database file as they were, and no deindexArticle call is made for it.
C12_FailedUnlinkLeavesIndex ==
  [][(resp'.op = "delete"
        /\ resp'.err \in {"FileOperationError", "FileOperationError:ENOENT"})
       => UNCHANGED <<articles, articles_content, articles_fts, disk, pending,
                      lastIdx>>]_vars

\* C12 witness: deleteArticle has failed on an absent file while the id's
\* metadata row is in place
C12_Witness ==
  /\ resp.op = "delete" /\ resp.err = "FileOperationError:ENOENT"
  /\ resp.id \in DOMAIN articles
  /\ pending = {}

\* C13: when deleteArticle(id) reports success the file of id does not
\* exist and no table holds a row of id.
C13_DeleteRemovesEverything ==
  (resp.op = "delete" /\ resp.err = "")
    => /\ ~FileExists(resp.id)
       /\ resp.id \notin DOMAIN articles
       /\ resp.id \notin DOMAIN articles_content
       /\ resp.id \notin DOMAIN articles_fts

C15_PageLengths ==
  resp.op = "list"
    => LET N == Cardinality(DOMAIN articles)
           page == resp.arg.page
           S == resp.arg.size
       IN /\ resp.err = ""
          /\ Len(resp.out) = IF page < Ceil(N, S) THEN S
                             ELSE IF page = Ceil(N, S) THEN N - S * (page - 1)
                             ELSE 0

\* C15 witness: N = 15, S = 10: the second page holds 5 items
C15_Witness ==
  /\ Cardinality(DOMAIN articles) = 15
  /\ resp.op = "list"
  /\ resp.arg = [page |-> 2, size |-> 10]
  /\ Len(resp.out) = 5

\* C16: a close() call on a DatabaseService whose database is closed
\* already returns; it does not throw.
C16_SecondCloseReturns ==
  dbHandle = "closed" => lastClose \in {"closed", "reclosed"}

\* C16 witness: close() was called on an initialized service whose database
\* an earlier close() had closed, and returned
C16_Witness ==
  /\ initState = "ready"
  /\ closeCalls >= 2
  /\ lastClose = "reclosed"

\* C17: ftsAvailable changes only in the step that ends the initialization;
\* no later step, a failed full-text statement included, changes it.
C17_CapabilityFixed ==
  [][ftsAvailable' # ftsAvailable
       => (initState = "pending" /\ initState' # "pending")]_vars

\* C17 witness: a full-text statement of indexArticle or deindexArticle has
\* failed and the full-text table is still in use
C17_Witness ==
  /\ ftsAvailable
  /\ \E id \in AllIds : lastIdx[id] \in {"index_ok_ftsfail", "deindex_ok_ftsfail"}

\* C18: a search whose query no indexed article matches returns the empty
\* list and no error, with and without the full-text table.
C18_NoMatchIsEmptyList ==
  initState = "ready"
    => \A q \in Queries :
         (\A id \in DOMAIN articles : ~Matches(id, q))
           => search(q, AllRows, "ok") = [err |-> "", rows |-> <<>>]

\* C19: a successful indexArticle leaves one metadata row and one content
\* row for the id, added if there was none, and the metadata row holds the
\* filePath, title and keywords of this call: a title or keywords the call
\* does not give is not kept from the row it replaces.
C19_UpsertReplacesRow ==
  [][(resp'.op \in {"create", "update"} /\ resp'.err = "")
       => LET id == resp'.id
              in == ArticleInputs[resp'.arg]
          IN /\ DOMAIN articles' = DOMAIN articles \cup {id}
             /\ DOMAIN articles_content' = DOMAIN articles_content \cup {id}
             /\ articles'[id] =
                  [filePath |-> PathOf(id),
                   title |-> IF in.title \in {NULL, <<>>}
                             THEN extractTitle(in.content) ELSE in.title,
                   keywords |-> JoinKeywords(in.keywords)]]_vars

\* C19 witness: the one call made is an updateArticle that has replaced the
\* row of the article of an existing knowledge base
C19_Witness ==
  /\ calls = 1
  /\ resp.op = "update" /\ resp.err = ""
  /\ resp.id = ExistingId
  /\ resp.arg = 2
  /\ articles[ExistingId].keywords = JoinKeywords(ArticleInputs[2].keywords)

\* C20: updateArticle of an id that has no file fails with not-found and
\* creates no file and no row: an id no createArticle has returned never
\* has a file or a metadata row, and every updateArticle of it ends in ENOENT.
C20_UpdateOfMissingFails ==
  /\ ~FileExists(BogusId)
  /\ BogusId \notin DOMAIN articles
  /\ (resp.op = "update" /\ resp.id = BogusId)
       => resp.err = "FileOperationError:ENOENT"

\* the trimmed text of the first line of content that is a level-1 heading
\* ("#", a space, text), or NULL when no line is one
HeadingTitle(content) ==
  LET ps == {p \in 1..Len(content) :
               /\ AtLineStart(content, p)
               /\ content[p] = "#"
               /\ p + 1 <= Len(content)
               /\ content[p + 1] = " "
               /\ LineFrom(content, p + 2) # <<>>}
  IN IF ps = {} THEN NULL ELSE Trim(LineFrom(content, Min(ps) + 2))

\* C21: indexArticle stores the supplied title when one is supplied (an
\* empty one counting as none); otherwise the trimmed text of the first line
\* of content that is a level-1 heading, and no title when content has no
\* such line.
C21_TitleStored ==
  resp.op = "index"
    => articles[resp.id].title =
         IF resp.arg.title \in {NULL, <<>>}
         THEN HeadingTitle(resp.arg.content)
         ELSE resp.arg.title

\* C22: every tool call returns a result, a success or an error result: a
\* call that waits at an await of the DatabaseService eventually leaves it
\* with its response, whether the initialization resolves or rejects.
C22_EveryCallReturns ==
  \A c \in WaitingCalls :
     (c \in pending)
       ~> (c \notin pending /\ resp.op = c.op /\ resp.id = c.id /\ resp.arg = c.arg)

\* C22 witness: a call made while the initialization was running has
\* returned the error of the failed initialization
C22_Witness ==
  /\ initState = "failed"
  /\ calls = 1
  /\ pending = {}
  /\ resp.op = "create" /\ resp.err = "DatabaseError"

\* C23: when a full-text statement of indexArticle fails while the metadata
\* and raw-content statements succeed, the call still succeeds, and the
\* metadata and raw-content rows of the call are in the tables and in the
\* database file.
C23_FtsFailureSwallowed ==
  /\ \A id \in AllIds : lastIdx[id] # "index_fail_ftsfail"
  /\ (/\ resp.op \in {"create", "update"}
      /\ resp.err # "FileOperationError"
      /\ lastIdx[resp.id] = "index_ok_ftsfail")
       => /\ resp.err = ""
          /\ resp.id \in DOMAIN articles \cap DOMAIN articles_content
          /\ articles[resp.id] = MetaRow(ArticleOf(resp.id, resp.arg))
          /\ articles_content[resp.id] = Stripped[ArticleInputs[resp.arg].content]
          /\ disk.exists
          /\ disk.image.articles = articles
          /\ disk.image.content = articles_content

\* C23 witness: the INSERT INTO articles_fts of an updateArticle call has
\* failed; the call has succeeded and the id has no full-text row
C23_Witness ==
  /\ resp.op = "update" /\ resp.err = ""
  /\ lastIdx[resp.id] = "index_ok_ftsfail"
  /\ resp.id \in DOMAIN articles
  /\ resp.id \notin DOMAIN articles_fts

\* C24: when the DELETE on articles or on articles_content fails inside
\* deindexArticle, the three tables and the database file are as before the
\* call and the call fails with a DatabaseError; a failure of the DELETE on
\* articles_fts alone does not fail the call.
C24_FailedDeindexRollsBack ==
  [][/\ (/\ pending' # pending
         /\ resp'.op = "delete"
         /\ lastIdx'[resp'.id] = "deindex_fail_row")
          => /\ resp'.err = "DatabaseError"
             /\ UNCHANGED <<articles, articles_content, articles_fts, disk>>
     /\ \A id \in AllIds : lastIdx'[id] # "deindex_fail_ftsfail"]_vars

\* C24 witness: the DELETE of a deindexArticle call has failed after the
\* file was removed, and the id still has its rows
C24_Witness ==
  /\ resp.op = "delete" /\ resp.err = "DatabaseError"
  /\ lastIdx[resp.id] = "deindex_fail_row"
  /\ resp.id \in DOMAIN articles \cap DOMAIN articles_content
  /\ ~FileExists(resp.id)

\* C25: a step in which indexArticle fails (its metadata write, its
\* raw-content write or its persist step) leaves the three tables as they
\* were before the call.
C25_FailedIndexChangesNothing ==
  [][(/\ pending' # pending
      /\ resp'.op \in {"create", "update"}
      /\ resp'.err = "DatabaseError")
       => UNCHANGED <<articles, articles_content, articles_fts>>]_vars

\* C26: a step in which deindexArticle fails after deleteArticle has removed
\* the file returns an error, does not restore the file, and leaves the
\* id's metadata row where listArticles finds it.
C26_FailedDeindexKeepsEntry ==
  [][(/\ pending' # pending
      /\ resp'.op = "delete"
      /\ initState = "ready"
      /\ resp'.id \in DOMAIN articles
      /\ lastIdx'[resp'.id] \in {"deindex_fail", "deindex_fail_row"})
       => /\ resp'.err # ""
          /\ UNCHANGED files
          /\ resp'.id \in PageIds(listArticles(1, AllRows, "ok").rows)']_vars

\* C27: initSchema probes full-text with stemming first and without
\* stemming only if that probe failed, and the engine ends in a full-text
\* state exactly when one of the probes it ran succeeded, in substring
\* fallback exactly when both failed.
C27_ProbeOrder ==
  probes # <<>>
    => /\ probes[1].tokenize = "porter"
       /\ Len(probes) = IF probes[1].ok THEN 1 ELSE 2
       /\ Len(probes) = 2 => probes[2].tokenize = "plain"
       /\ ftsAvailable = (\E k \in DOMAIN probes : probes[k].ok)
       /\ ~ftsAvailable = (Len(probes) = 2 /\ \A k \in DOMAIN probes : ~probes[k].ok)

\* C27 witness: the probe with stemming failed, the one without succeeded,
\* and an article has been indexed into the full-text table
C27_Witness ==
  /\ Len(probes) = 2
  /\ ~probes[1].ok /\ probes[2].ok
  /\ ftsAvailable
  /\ \E id \in DOMAIN articles_fts : lastIdx[id] = "index_ok"

\* C28: search(query, limit) with limit >= 0 returns at most limit results,
\* with and without the full-text table; with the full-text table and
\* ranking, the results are the limit best-ranked matches, in ascending
\* order of rank.
C28_LimitAndOrder ==
  initState = "ready"
    => \A q \in Queries, limit \in {0, 1, AllRows}, o \in {"ok", "rank"} :
         LET r == search(q, limit, o)
             M == {id \in DOMAIN articles \cap DOMAIN articles_fts :
                     FtsMatch(articles_fts[id], q)}
         IN r.err = ""
              => /\ Len(r.rows) <= limit
                 /\ (ftsAvailable /\ o = "ok")
                      => /\ ResultIds(r.rows) \subseteq M
                         /\ Cardinality(ResultIds(r.rows)) = Len(r.rows)
                         /\ Len(r.rows) = Min({limit, Cardinality(M)})
                         /\ \A k \in DOMAIN r.rows :
                              /\ r.rows[k].rank = Bm25(articles_fts[r.rows[k].id], q)
                              /\ \A j \in DOMAIN r.rows :
                                   k < j => r.rows[k].rank <= r.rows[j].rank
                              /\ \A id \in M \ ResultIds(r.rows) :
                                   r.rows[k].rank <= Bm25(articles_fts[id], q)

\* C28 witness: two indexed articles match a query with different ranks,
\* and search with limit 1 returns the better one, which is not the first
\* in the table
C28_Witness ==
  /\ initState = "ready"
  /\ ftsAvailable
  /\ \E q \in Queries :
       LET r == search(q, 1, "ok")
       IN /\ r.err = ""
          /\ Len(r.rows) = 1
          /\ \E id \in DOMAIN articles_fts \cap DOMAIN articles :
               /\ id < r.rows[1].id
               /\ FtsMatch(articles_fts[id], q)
               /\ Bm25(articles_fts[id], q) > r.rows[1].rank

\* C29: every result of search has rank 0 in substring fallback, and also
\* when, with the full-text table, the ranked statement fails and the
\* unranked full-text statement runs: search then returns the matches of
\* that statement and no error.
C29_FallbackRankZero ==
  initState = "ready"
    => \A q \in Queries :
         /\ ~ftsAvailable
              => LET r == search(q, AllRows, "ok")
                 IN /\ r.err = ""
                    /\ \A k \in DOMAIN r.rows : r.rows[k].rank = 0
         /\ (ftsAvailable /\ FtsQueryOk(q))
              => LET r == search(q, AllRows, "rank")
                 IN /\ r.err = ""
                    /\ \A k \in DOMAIN r.rows : r.rows[k].rank = 0
                    /\ ResultIds(r.rows) =
                         {id \in DOMAIN articles \cap DOMAIN articles_fts :
                            FtsMatch(articles_fts[id], q)}

\* C29 witness: with the full-text table, the ranked statement of a
\* searchArticles call has failed and the call has returned the two
\* matching articles with rank 0
C29_Witness ==
  /\ ftsAvailable
  /\ faults > 0
  /\ resp.op = "search" /\ resp.err = ""
  /\ Len(resp.out) = 2
  /\ \A k \in DOMAIN resp.out : resp.out[k].rank = 0

\* C30: the statements two calls of indexArticle / deindexArticle run after
\* their await this.ready never interleave: between two statements of one
\* call there is no statement of another call.
C30_NoInterleaving ==
  \A i, j, k \in DOMAIN stmts :
     (/\ i < j /\ j < k
      /\ stmts[i].stmt # "await" /\ stmts[j].stmt # "await" /\ stmts[k].stmt # "await"
      /\ stmts[i].call = stmts[k].call)
       => stmts[j].call = stmts[i].call

\* C30 witness: a deindexArticle call and an indexArticle call were waiting
\* at the same time, and both have run all their statements
C30_Witness ==
  /\ ftsAvailable
  /\ Len(stmts) = 2 + Len(Statements("index")) + Len(Statements("deindex"))
  /\ stmts[1].stmt = "await" /\ stmts[2].stmt = "await"
  /\ stmts[3].stmt = "BEGIN"
  /\ stmts[Len(stmts)].call = 2
  /\ pending = {}

\* C31: a step in which deindexArticle reports a failure, whatever failed
\* (BEGIN, a DELETE, COMMIT or the persist step after COMMIT), removes no
\* row of the id from the three tables in memory.
C31_FailedDeindexRemovesNothing ==
  [][(/\ pending' # pending
      /\ resp'.op = "delete"
      /\ resp'.err # ""
      /\ initState = "ready")
       => /\ resp'.id \in DOMAIN articles => resp'.id \in DOMAIN articles'
          /\ resp'.id \in DOMAIN articles_content
               => resp'.id \in DOMAIN articles_content'
          /\ resp'.id \in DOMAIN articles_fts
               => resp'.id \in DOMAIN articles_fts']_vars

\* C32: no transaction is open when deindexArticle has returned or thrown:
\* the database connection is in autocommit between the calls, so no
\* indexArticle call writes inside a transaction a deindexArticle call left.
C32_NoOpenTransaction == txn = "none"

\* C32 witness: a DELETE of a deindexArticle call has failed, the call has
\* thrown, and a later createArticle call has indexed its article
C32_Witness ==
  /\ txn = "none"
  /\ \E id \in AllIds : lastIdx[id] = "deindex_fail_row"
  /\ resp.op = "create" /\ resp.err = ""
  /\ lastIdx[resp.id] = "index_ok"

\* C33: after any sequence of indexArticle and deindexArticle calls,
\* re-indexing and tolerated full-text failures included, articles_fts holds
\* at most one row per id (its rows are those of the id -> content table of
\* the other specifications), and the full-text statements of search return
\* no id twice.
C33_OneFtsRowPerId ==
  /\ \A id \in AllIds :
       Cardinality({k \in DOMAIN ftsRows : ftsRows[k].id = id}) <= 1
  /\ {<<ftsRows[k].id, ftsRows[k].content>> : k \in DOMAIN ftsRows}
       = {<<id, articles_fts[id]>> : id \in DOMAIN articles_fts}
  /\ \A q \in Queries :
       LET ids == JoinRows(ftsRows, q)
       IN \A i, j \in DOMAIN ids : ids[i] = ids[j] => i = j

\* C33 witness: an id was indexed twice with different content, no call
\* failed, and the id has one full-text row, with the later content
C33_Witness ==
  /\ calls = 2 /\ faults = 0 /\ deleted = {}
  /\ resp.op = "index" /\ resp.arg = 2
  /\ DOMAIN articles = {resp.id}
  /\ ftsRows = <<[id |-> resp.id, content |-> Stripped[ArticleInputs[2].content]]>>

\* C34: once the initialization has failed, every call of indexArticle,
\* deindexArticle, search and listArticles fails with the error of the
\* initialization and runs no statement: the tables, the database file and
\* the transaction state are untouched and no statement of its own fails.
C34_FailedInitFailsEveryCall ==
  [][(/\ initState = "failed"
      /\ \/ pending' # pending /\ resp'.op \in {"create", "update", "delete"}
         \/ resp'.op \in {"search", "list"})
       => /\ resp'.err = "DatabaseError"
          /\ resp'.out = <<>>
          /\ early' = early
          /\ faults' = faults
          /\ UNCHANGED <<articles, articles_content, articles_fts, disk, txn,
                         ftsAvailable, schemaRuns, initState>>]_vars

\* C34 witness: initSchema has thrown on the open database, and an
\* updateArticle call made afterwards has failed at indexArticle without a
\* statement having run
C34_Witness ==
  /\ initState = "failed" /\ dbHandle = "open"
  /\ resp.op = "update" /\ resp.err = "DatabaseError"
  /\ calls = 1
  /\ ~early
  /\ pending = {}

\* C35: after close() was called, once the initialization has ended and no
\* call is waiting, the database is not open, whether close() was called
\* after or before the initialization completed.
C35_ClosedAfterClose ==
  (closeCalls > 0 /\ initState # "pending" /\ pending = {})
    => dbHandle # "open"

\* C36: in any one state of the index, with N articles, for every page size
\* S >= 1 the pages listArticles(1, S) .. listArticles(ceil(N/S), S) are
\* pairwise disjoint and together hold exactly the ids of the table
\* articles.
C36_PagesPartitionIndex ==
  \A S \in 1..MaxPageSize :
     LET N == Cardinality(DOMAIN articles)
         page == [p \in 1..Ceil(N, S) |-> listArticles(p, S, "ok")]
     IN /\ \A p \in DOMAIN page :
             /\ page[p].err = ""
             /\ Cardinality(PageIds(page[p].rows)) = Len(page[p].rows)
        /\ \A p, r \in DOMAIN page :
             p # r => PageIds(page[p].rows) \cap PageIds(page[r].rows) = {}
        /\ UNION {PageIds(page[p].rows) : p \in DOMAIN page} = DOMAIN articles

\* C36 witness: seven articles are indexed and listArticles(3, 3) has
\* returned the one article that pages 1 and 2 do not hold
C36_Witness ==
  /\ Cardinality(DOMAIN articles) = 7
  /\ resp.op = "list" /\ resp.err = ""
  /\ resp.arg = [page |-> 3, size |-> 3]
  /\ Len(resp.out) = 1
  /\ PageIds(resp.out) =
       DOMAIN articles \ (PageIds(listArticles(1, 3, "ok").rows)
                            \cup PageIds(listArticles(2, 3, "ok").rows))

\* C37: a step of indexArticle(article) or deindexArticle(id), whether the
\* call succeeds or fails, leaves the metadata, raw-content and full-text
\* rows of every other id as they were.
C37_OtherIdsUntouched ==
  [][(pending' # pending /\ resp'.op \in {"create", "update", "delete"})
       => \A id \in AllIds \ {resp'.id} :
            /\ (id \in DOMAIN articles') = (id \in DOMAIN articles)
            /\ id \in DOMAIN articles => articles'[id] = articles[id]
            /\ (id \in DOMAIN articles_content') = (id \in DOMAIN articles_content)
            /\ id \in DOMAIN articles_content
                 => articles_content'[id] = articles_content[id]
            /\ (id \in DOMAIN articles_fts') = (id \in DOMAIN articles_fts)
            /\ id \in DOMAIN articles_fts
                 => articles_fts'[id] = articles_fts[id]]_vars

\* C37 witness: with two articles indexed, a deleteArticle call has
\* de-indexed one of them and the other one has its three rows
C37_Witness ==
  /\ resp.op = "delete" /\ resp.err = ""
  /\ lastIdx[resp.id] = "deindex_ok"
  /\ resp.id \notin DOMAIN articles
  /\ \E id \in AllIds \ {resp.id} :
       /\ id \in DOMAIN articles \cap DOMAIN articles_content
       /\ id \in DOMAIN articles_fts
       /\ lastIdx[id] = "index_ok"

\* C38: in the better-sqlite3 DatabaseService every indexed id, re-indexed
\* or not, has exactly one articles_fts row; the statement of search
\* returns no id twice, and returns an id only for a query its latest
\* content matches.
C38_ReindexLeavesOneRow ==
  /\ \A id \in DOMAIN articles :
       Cardinality({k \in DOMAIN ftsRows : ftsRows[k].id = id}) = 1
  /\ \A q \in {x \in Queries : FtsQueryOk(x)} :
       LET ids == JoinRows(ftsRows, q)
       IN \A i \in DOMAIN ids :
            /\ \A j \in DOMAIN ids : ids[i] = ids[j] => i = j
            /\ LET last == Max({k \in DOMAIN ftsRows : ftsRows[k].id = ids[i]})
               IN FtsMatch(ftsRows[last].content, q)

====
